---- MODULE Spec2Model ----
(***************************************************************************)
(* A model of timints: the Timer class (tic, toc, tictoc, the context      *)
(* manager protocol) and the module-level functions bound to the default   *)
(* instance TIMER.                                                         *)
(*                                                                         *)
(* Time is fixed-point: one unit is 1/Scale of a second, so the float      *)
(* arithmetic of toc (subtraction, round, divmod) is integer arithmetic.   *)
(* Python's optional values are sequences: None is <<>> and a value x is   *)
(* <<x>>.                                                                  *)
(***************************************************************************)
EXTENDS Integers, Sequences, FiniteSets, TLC

None == <<>>
Some(x) == <<x>>
Val(o) == o[1]

\* Units of the clock per second.
Scale == 1000

\* How often time may advance in one behaviour.
MaxTicks == 2

\* The amounts by which time advances between calls (59.996 s, 59 min).
Steps == {59996, 3540000}

\* The time a block or a wrapped callable takes (nothing measurable, 59.996 s).
Durations == {0, 59996}

\* The intervals a program measures when it times one piece of work: a few
\* milliseconds, some seconds, and intervals at, just below and above one
\* minute and one hour.
Intervals ==
    {4, 3142, 59994, 59996, 60000, 65000, 125004,
     3599994, 3599996, 3600000, 3661000, 7325004}

Precisions == {None, Some(0), Some(1), Some(2)}

Timers == {"TIMER", "timer1", "timer2"}

\* The arguments wrapped callables are invoked with.
Args == {0, 1}

VARIABLES
    timer,   \* the Timer objects: tstart, name, precision, verbose
    clock,   \* the reading time.perf_counter() returns now
    ticks,   \* how often time has advanced
    call,    \* the latest statement of the calling program and what came of it
    pc       \* where the calling program is: what it calls next, on which timer

vars == <<timer, clock, ticks, call, pc>>

----------------------------------------------------------------------------
(* Exceptions *)

AlreadyRunning(name) == [type |-> "RuntimeError", still |-> "tic", name |-> name]
NotRunning(name) == [type |-> "RuntimeError", still |-> "toc", name |-> name]
SomethingWrong == [type |-> "Exception", still |-> "", name |-> None]

----------------------------------------------------------------------------
(* What a call leaves behind: the object, the exception raised (or None),  *)
(* the value returned, the lines written to each stream, how many times    *)
(* tic, toc and the wrapped callable or block body completed, and the time *)
(* the call took.                                                          *)

Outcome(self, exc, ret, stdout, stderr, tics, tocs, bodies, took) ==
    [self |-> self, exc |-> exc, ret |-> ret, stdout |-> stdout,
     stderr |-> stderr, tics |-> tics, tocs |-> tocs, bodies |-> bodies,
     took |-> took]

\* __init__ deriving verbose from the precision instead of the name
Timer_verbose_by_precision(name, precision) ==
    [tstart |-> None, name |-> name, precision |-> precision,
     verbose |-> (precision # None)]

\* Timer.__init__
Timer(name, precision) ==
    [tstart |-> None, name |-> name, precision |-> precision,
     verbose |-> (name # None)]

\* tic with the reading taken before the check
tic_restarts(self, now) ==
    IF self.tstart # None
    THEN Outcome([self EXCEPT !.tstart = Some(now)],
                 Some(AlreadyRunning(self.name)), None, <<>>, <<>>, 0, 0, 0, 0)
    ELSE Outcome([self EXCEPT !.tstart = Some(now)], None, None, <<>>, <<>>, 1, 0, 0, 0)

\* Timer.tic
tic(self, now) ==
    IF self.tstart # None
    THEN Outcome(self, Some(AlreadyRunning(self.name)), None, <<>>, <<>>, 0, 0, 0, 0)
    ELSE Outcome([self EXCEPT !.tstart = Some(now)], None, None, <<>>, <<>>, 1, 0, 0, 0)

\* 10^n
RECURSIVE Pow10(_)
Pow10(n) == IF n = 0 THEN 1 ELSE 10 * Pow10(n - 1)

\* rounding that cuts the digits off
round_down(x, ndigits) ==
    LET q == Scale \div Pow10(ndigits) IN x - (x % q)

\* round(x, ndigits) of the builtin: to the nearest multiple of 10^-ndigits,
\* a tie going to the even multiple.
round(x, ndigits) ==
    LET q    == Scale \div Pow10(ndigits)
        r    == x % q
        down == x - r
    IN  IF 2 * r < q THEN down
        ELSE IF 2 * r > q THEN down + q
        ELSE IF (down \div q) % 2 = 0 THEN down ELSE down + q

\* divmod(x, y) of the builtin, as <<quotient, remainder>>
divmod(x, y) == <<x \div y, x % y>>

SecondsPerMinute == 60
MinutesPerHour == 60

\* diff_time with the hours split off only above 60 minutes
diff_time_strict(diff_seconds) ==
    IF diff_seconds >= SecondsPerMinute * Scale
    THEN LET ms == divmod(diff_seconds, SecondsPerMinute * Scale) IN
         IF ms[1] > MinutesPerHour
         THEN LET hm == divmod(ms[1], MinutesPerHour) IN
              << <<hm[1], "h">>, <<hm[2], "m">>, <<ms[2], "s">> >>
         ELSE << <<ms[1], "m">>, <<ms[2], "s">> >>
    ELSE << <<diff_seconds, "s">> >>

\* The text toc builds in diff_time, as its components: each a number and
\* its unit letter. Seconds are in clock units, minutes and hours are whole.
diff_time(diff_seconds) ==
    IF diff_seconds >= SecondsPerMinute * Scale
    THEN LET ms == divmod(diff_seconds, SecondsPerMinute * Scale) IN
         IF ms[1] >= MinutesPerHour
         THEN LET hm == divmod(ms[1], MinutesPerHour) IN
              << <<hm[1], "h">>, <<hm[2], "m">>, <<ms[2], "s">> >>
         ELSE << <<ms[1], "m">>, <<ms[2], "s">> >>
    ELSE << <<diff_seconds, "s">> >>

\* f'[{self.name}] Elapsed: {diff_time}'
Line(name, rendered) == <<"[", name, "] Elapsed: ", rendered>>

\* the verbose path also returning the number
report_returns(self, diff_seconds) ==
    LET rounded == IF self.precision # None
                   THEN round(diff_seconds, Val(self.precision))
                   ELSE diff_seconds
    IN  Outcome([self EXCEPT !.tstart = None], None, Some(rounded),
                <<Line(Val(self.name), diff_time(rounded))>>, <<>>, 0, 1, 0, 0)

\* the verbose path without the reset of tstart
report_keeps_running(self, diff_seconds) ==
    LET rounded == IF self.precision # None
                   THEN round(diff_seconds, Val(self.precision))
                   ELSE diff_seconds
    IN  Outcome(self, None, None,
                <<Line(Val(self.name), diff_time(rounded))>>, <<>>, 0, 1, 0, 0)

\* the verbose path printing the time as measured, not rounded
report_unrounded(self, diff_seconds) ==
    Outcome([self EXCEPT !.tstart = None], None, None,
            <<Line(Val(self.name), diff_time(diff_seconds))>>, <<>>, 0, 1, 0, 0)

\* Timer.toc, the verbose path: round, format, print, reset
report(self, diff_seconds) ==
    LET rounded == IF self.precision # None
                   THEN round(diff_seconds, Val(self.precision))
                   ELSE diff_seconds
    IN  Outcome([self EXCEPT !.tstart = None], None, None,
                <<Line(Val(self.name), diff_time(rounded))>>, <<>>, 0, 1, 0, 0)

\* toc without its check: an idle timer measures from 0
toc_unchecked(self, now) ==
    LET diff_seconds == IF self.tstart = None THEN now ELSE now - Val(self.tstart) IN
    IF ~self.verbose
    THEN Outcome(self, None, Some(diff_seconds), <<>>, <<>>, 0, 1, 0, 0)
    ELSE report(self, diff_seconds)

\* toc with the subtraction the wrong way round
toc_swapped(self, now) ==
    IF self.tstart = None
    THEN Outcome(self, Some(NotRunning(self.name)), None, <<>>, <<>>, 0, 0, 0, 0)
    ELSE LET diff_seconds == Val(self.tstart) - now IN
         IF ~self.verbose
         THEN Outcome(self, None, Some(diff_seconds), <<>>, <<>>, 0, 1, 0, 0)
         ELSE report(self, diff_seconds)

\* Timer.toc
toc(self, now) ==
    IF self.tstart = None
    THEN Outcome(self, Some(NotRunning(self.name)), None, <<>>, <<>>, 0, 0, 0, 0)
    ELSE LET diff_seconds == now - Val(self.tstart) IN
         IF ~self.verbose
         THEN Outcome(self, None, Some(diff_seconds), <<>>, <<>>, 0, 1, 0, 0)
         ELSE report(self, diff_seconds)

\* The callable a decorator wraps: it raises on argument 0 and otherwise
\* returns a value that depends on its argument.
func(a) ==
    IF a = 0 THEN [exc |-> Some(SomethingWrong), ret |-> None]
    ELSE [exc |-> None, ret |-> Some(a + 100)]

\* inner with the toc in a finally clause
inner_finally(self, a, now, d) ==
    LET r1 == tic(self, now) IN
    IF r1.exc # None THEN r1
    ELSE LET result == func(a)
             r2 == toc(r1.self, now + d)
         IN  IF r2.exc # None
             THEN Outcome(r2.self, r2.exc, None, r2.stdout, r2.stderr, 1, 0,
                          IF result.exc # None THEN 0 ELSE 1, d)
             ELSE Outcome(r2.self, result.exc, result.ret, r2.stdout, r2.stderr,
                          1, 1, IF result.exc # None THEN 0 ELSE 1, d)

\* inner, the callable Timer.tictoc returns, called with argument a while the
\* wrapped callable takes d units of time.
inner(self, a, now, d) ==
    LET r1 == tic(self, now) IN
    IF r1.exc # None THEN r1
    ELSE LET result == func(a) IN
         IF result.exc # None
         THEN Outcome(r1.self, result.exc, None, <<>>, <<>>, 1, 0, 0, d)
         ELSE LET r2 == toc(r1.self, now + d) IN
              IF r2.exc # None
              THEN Outcome(r2.self, r2.exc, None, r2.stdout, r2.stderr, 1, 0, 1, d)
              ELSE Outcome(r2.self, None, result.ret, r2.stdout, r2.stderr,
                           1, 1, 1, d)

\* a with statement whose exit runs even when the entry raised
with_exit_anyway(self, now, d, raises) ==
    LET r1 == tic(self, now) IN
    IF r1.exc # None
    THEN LET r2 == toc(r1.self, now) IN
         Outcome(r2.self, r1.exc, None, r2.stdout, r2.stderr, 0, r2.tocs, 0, 0)
    ELSE LET r2 == toc(r1.self, now + d)
             done == IF raises THEN 0 ELSE 1
         IN  IF r2.exc # None
             THEN Outcome(r2.self, r2.exc, None, r2.stdout, r2.stderr, 1, 0, done, d)
             ELSE Outcome(r2.self, IF raises THEN Some(SomethingWrong) ELSE None,
                          None, r2.stdout, r2.stderr, 1, 1, done, d)

\* with self: <body>, where the body takes d units of time and raises or not.
\* __enter__ calls tic; when it raises neither the body nor __exit__ runs.
\* __exit__ calls toc and returns False, so an exception of the body
\* propagates unless toc itself raises.
with(self, now, d, raises) ==
    LET r1 == tic(self, now) IN
    IF r1.exc # None THEN r1
    ELSE LET r2 == toc(r1.self, now + d)
             done == IF raises THEN 0 ELSE 1
         IN  IF r2.exc # None
             THEN Outcome(r2.self, r2.exc, None, r2.stdout, r2.stderr, 1, 0, done, d)
             ELSE Outcome(r2.self, IF raises THEN Some(SomethingWrong) ELSE None,
                          None, r2.stdout, r2.stderr, 1, 1, done, d)

\* tic() on a Timer of its own, made for the call
module_tic_own_timer(TIMER, now) ==
    [tic(Timer(TIMER.name, TIMER.precision), now) EXCEPT !.self = TIMER]

\* The module-level tic(): TIMER.tic(), nothing returned
module_tic(TIMER, now) == [tic(TIMER, now) EXCEPT !.ret = None]

\* The module-level toc(): TIMER.toc(), its value dropped
module_toc(TIMER, now) == [toc(TIMER, now) EXCEPT !.ret = None]

\* The callable the module-level tictoc(func) returns
module_tictoc(TIMER, a, now, d) == inner(TIMER, a, now, d)

\* The module-level toctic(): toc() then tic() on TIMER
toctic(TIMER, now) ==
    LET r1 == module_toc(TIMER, now) IN
    IF r1.exc # None THEN r1
    ELSE LET r2 == module_tic(r1.self, now) IN
         Outcome(r2.self, r2.exc, None, r1.stdout \o r2.stdout,
                 r1.stderr \o r2.stderr, r2.tics, 1, 0, 0)

----------------------------------------------------------------------------
(* The calling program: statements on the timers, and time passing between *)
(* them. In Spec the program makes any call at any time (pc is Anything).  *)

Anything == [next |-> "any", on |-> "TIMER"]

Statement(op, t, arg, raises, r) ==
    [op |-> op, on |-> t, arg |-> arg, raises |-> raises,
     exc |-> r.exc, ret |-> r.ret, stdout |-> r.stdout, stderr |-> r.stderr,
     tics |-> r.tics, tocs |-> r.tocs, bodies |-> r.bodies]

\* Nothing has raised, returned or printed: the module was imported, or the
\* program slept.
Quiet(self) == Outcome(self, None, None, <<>>, <<>>, 0, 0, 0, 0)

\* import timints, and the program's own Timer objects
Construct ==
    /\ \E p \in Precisions :
         timer = [t \in Timers |->
                    CASE t = "TIMER"  -> Timer(Some("timints"), Some(2))
                      [] t = "timer1" -> Timer(Some("As a verbose object"), p)
                      [] t = "timer2" -> Timer(None, Some(2))]
    /\ clock = 0
    /\ ticks = 0
    /\ call = Statement("import", "TIMER", None, FALSE, Quiet(timer["TIMER"]))

Init == Construct /\ pc = Anything

\* A call with tstart kept in the class, one for all timers
Do_shared_tstart(op, t, arg, raises, r) ==
    /\ r.took = 0 \/ ticks < MaxTicks
    /\ timer' = [u \in Timers |->
                  IF u = t THEN r.self
                  ELSE [timer[u] EXCEPT !.tstart = r.self.tstart]]
    /\ clock' = clock + r.took
    /\ ticks' = IF r.took = 0 THEN ticks ELSE ticks + 1
    /\ call' = Statement(op, t, arg, raises, r)

\* The program makes call op on timer t, with outcome r.
Do(op, t, arg, raises, r) ==
    /\ r.took = 0 \/ ticks < MaxTicks
    /\ timer' = [timer EXCEPT ![t] = r.self]
    /\ clock' = clock + r.took
    /\ ticks' = IF r.took = 0 THEN ticks ELSE ticks + 1
    /\ call' = Statement(op, t, arg, raises, r)

\* time.sleep between two calls
Sleep ==
    /\ ticks < MaxTicks
    /\ \E d \in Steps : clock' = clock + d
    /\ ticks' = ticks + 1
    /\ call' = Statement("sleep", "TIMER", None, FALSE, Quiet(timer["TIMER"]))
    /\ UNCHANGED <<timer, pc>>

Tic ==
    /\ \E t \in Timers : Do("tic", t, None, FALSE, tic(timer[t], clock))
    /\ UNCHANGED pc

Toc ==
    /\ \E t \in Timers : Do("toc", t, None, FALSE, toc(timer[t], clock))
    /\ UNCHANGED pc

Inner ==
    /\ \E t \in Timers, a \in Args, d \in Durations :
         Do("inner", t, Some(a), func(a).exc # None, inner(timer[t], a, clock, d))
    /\ UNCHANGED pc

With ==
    /\ \E t \in Timers, d \in Durations, raises \in BOOLEAN :
         Do("with", t, None, raises, with(timer[t], clock, d, raises))
    /\ UNCHANGED pc

ModuleTic ==
    /\ Do("module.tic", "TIMER", None, FALSE, module_tic(timer["TIMER"], clock))
    /\ UNCHANGED pc

ModuleToc ==
    /\ Do("module.toc", "TIMER", None, FALSE, module_toc(timer["TIMER"], clock))
    /\ UNCHANGED pc

ModuleInner ==
    /\ \E a \in Args, d \in Durations :
         Do("module.inner", "TIMER", Some(a), func(a).exc # None,
            module_tictoc(timer["TIMER"], a, clock, d))
    /\ UNCHANGED pc

Toctic ==
    /\ Do("module.toctic", "TIMER", None, FALSE, toctic(timer["TIMER"], clock))
    /\ UNCHANGED pc

Next ==
    \/ Sleep
    \/ Tic
    \/ Toc
    \/ Inner
    \/ With
    \/ ModuleTic
    \/ ModuleToc
    \/ ModuleInner
    \/ Toctic

Spec == Init /\ [][Next]_vars

----------------------------------------------------------------------------
(* A program that uses one freshly constructed timer in one way only:      *)
(* tic(), toc(), tic(), toc(), ... or call after call of a decorated       *)
(* function that returns, sleeping in between as it likes.                 *)

InitUse ==
    /\ Construct
    /\ pc \in {[next |-> n, on |-> t] : n \in {"tic", "inner"}, t \in Timers}

CycleTic ==
    /\ pc.next = "tic"
    /\ Do("tic", pc.on, None, FALSE, tic(timer[pc.on], clock))
    /\ pc' = [pc EXCEPT !.next = "toc"]

CycleToc ==
    /\ pc.next = "toc"
    /\ Do("toc", pc.on, None, FALSE, toc(timer[pc.on], clock))
    /\ pc' = [pc EXCEPT !.next = "tic"]

WrapCall ==
    /\ pc.next = "inner"
    /\ \E a \in Args, d \in Durations :
         /\ func(a).exc = None
         /\ Do("inner", pc.on, Some(a), FALSE, inner(timer[pc.on], a, clock, d))
    /\ UNCHANGED pc

NextUse ==
    \/ Sleep
    \/ CycleTic
    \/ CycleToc
    \/ WrapCall

SpecUse == InitUse /\ [][NextUse]_vars

----------------------------------------------------------------------------
(* A program that times one piece of work with one timer: tic(), the work, *)
(* toc(); and then may go on with tic() and toc().                         *)

InitRender ==
    /\ Construct
    /\ pc \in {[next |-> "tic", on |-> t] : t \in Timers}

\* The work between tic() and toc(), started at time 0.
Work ==
    /\ clock = 0
    /\ call.op = "tic"
    /\ \E d \in Intervals : clock' = clock + d
    /\ call' = Statement("sleep", "TIMER", None, FALSE, Quiet(timer["TIMER"]))
    /\ UNCHANGED <<timer, ticks, pc>>

NextRender ==
    \/ CycleTic
    \/ Work
    \/ CycleToc

SpecRender == InitRender /\ [][NextRender]_vars

----------------------------------------------------------------------------
(* A program that calls one timer in any way and at any time, and keeps in *)
(* pc.started the clock reading of the latest start that succeeded and in  *)
(* pc.events the latest two starts and stops that succeeded, in order.     *)

InitMeasure ==
    /\ Construct
    /\ pc \in {[next |-> "any", on |-> t, started |-> None,
                events |-> <<"none", "none">>] : t \in Timers}

\* The events after a call with outcome r: its tic comes before its toc.
Noted(events, r) ==
    LET started == IF r.tics = 1 THEN <<events[2], "tic">> ELSE events
    IN  IF r.tocs = 1 THEN <<started[2], "toc">> ELSE started

\* The program makes call op on its timer, with outcome r, and notes the
\* reading when the call started the timer.
Measured(op, arg, raises, r) ==
    /\ Do(op, pc.on, arg, raises, r)
    /\ pc' = [pc EXCEPT !.started = IF r.tics = 1 THEN Some(clock) ELSE @,
                        !.events = Noted(@, r)]

MeasureTic == Measured("tic", None, FALSE, tic(timer[pc.on], clock))

MeasureToc == Measured("toc", None, FALSE, toc(timer[pc.on], clock))

MeasureInner ==
    \E a \in Args, d \in Durations :
        Measured("inner", Some(a), func(a).exc # None,
                 inner(timer[pc.on], a, clock, d))

MeasureWith ==
    \E d \in Durations, raises \in BOOLEAN :
        Measured("with", None, raises, with(timer[pc.on], clock, d, raises))

NextMeasure ==
    \/ Sleep
    \/ MeasureTic
    \/ MeasureToc
    \/ MeasureInner
    \/ MeasureWith

SpecMeasure == InitMeasure /\ [][NextMeasure]_vars

----------------------------------------------------------------------------
(* Claims *)

Idle(t) == timer[t].tstart = None
Running(t) == timer[t].tstart # None
Printed == call.stdout \o call.stderr

\* C1: whenever toc is called on a running timer and returns without raising,
\* the timer is idle afterwards (tstart is None), verbose or not.
C1_StopResets ==
    (call.op = "toc" /\ call.exc = None) => Idle(call.on)

\* C2: tic on a running timer raises the still-in-tic RuntimeError and leaves
\* tstart as it was; a toc that follows succeeds and measures from the
\* original tic.
C2_TicWhileRunning ==
    [][\A t \in Timers :
         /\ (call'.op = "tic" /\ call'.on = t /\ Running(t)) =>
               /\ call'.exc = Some(AlreadyRunning(timer[t].name))
               /\ timer'[t] = timer[t]
               /\ call'.stdout = <<>> /\ call'.stderr = <<>>
         /\ (/\ call.op = "tic" /\ call.on = t /\ call.exc # None
             /\ call'.op = "toc" /\ call'.on = t) =>
               /\ call'.exc = None
               /\ call'.tocs = 1
               /\ IF timer[t].verbose
                  THEN call'.stdout \o call'.stderr =
                         <<Line(Val(timer[t].name),
                                diff_time(IF timer[t].precision = None
                                          THEN clock' - Val(timer[t].tstart)
                                          ELSE round(clock' - Val(timer[t].tstart),
                                                     Val(timer[t].precision))))>>
                  ELSE call'.ret = Some(clock' - Val(timer[t].tstart))
      ]_vars

\* A tic failed on a timer started earlier: time has passed since its start.
C2_Witness ==
    /\ call.op = "tic"
    /\ call.exc = Some(AlreadyRunning(timer[call.on].name))
    /\ Running(call.on)
    /\ Val(timer[call.on].tstart) < clock

\* C3: toc on an idle timer raises the still-in-toc RuntimeError, prints
\* nothing, returns nothing and leaves the timer idle.
C3_TocWhileIdle ==
    [][\A t \in Timers :
         (call'.op = "toc" /\ call'.on = t /\ Idle(t)) =>
            /\ call'.exc = Some(NotRunning(timer[t].name))
            /\ call'.ret = None
            /\ call'.stdout = <<>> /\ call'.stderr = <<>>
            /\ call'.tocs = 0
            /\ timer' = timer
      ]_vars

C3_Witness ==
    /\ call.op = "toc"
    /\ call.exc = Some(NotRunning(timer[call.on].name))
    /\ Idle(call.on)
    /\ clock > 0

\* C4: a timer is reusable without end: from a fresh timer, labelled or not,
\* every call of tic(), toc(), tic(), toc(), ... succeeds.
C4_Reusable ==
    (pc.next \in {"tic", "toc"} /\ call.op \in {"tic", "toc"}) => call.exc = None

\* The report toc prints for timer object self when now is the clock reading.
ReportOf(self, now) ==
    Line(Val(self.name),
         diff_time(IF self.precision = None
                   THEN now - Val(self.tstart)
                   ELSE round(now - Val(self.tstart), Val(self.precision))))

IsReportLine(line, label) ==
    /\ Len(line) = 4
    /\ line[1] = "[" /\ line[2] = label /\ line[3] = "] Elapsed: "
    /\ Len(line[4]) \in 1..3
    /\ line[4][Len(line[4])][2] = "s"

C6_ReportsOnStderr == call.stdout = <<>>

\* C7: a with block on an idle timer calls tic on entry and toc once on exit;
\* after it the timer is idle, whether the body ended normally or raised, and
\* an exception of the body is the one that propagates.
C7_ScopedBlock ==
    (call.op = "with" /\ call.tics = 1) =>
        /\ call.tocs = 1
        /\ Idle(call.on)
        /\ call.exc = IF call.raises THEN Some(SomethingWrong) ELSE None

\* C8: on a timer idle at the first call, every call of a decorated function
\* makes one tic and one toc around one call of the function and returns the
\* function's result.
C8_WrapEachCall ==
    (pc.next = "inner" /\ call.op = "inner") =>
        /\ call.exc = None
        /\ call.tics = 1 /\ call.tocs = 1 /\ call.bodies = 1
        /\ call.ret = func(Val(call.arg)).ret

\* C9: toctic() is toc() then tic() on TIMER: on a running TIMER it prints
\* one report of the interval that ends and leaves TIMER running from the
\* new clock reading; on an idle TIMER it raises the still-in-toc error and
\* leaves TIMER idle.
C9_Toctic ==
    [][call'.op = "module.toctic" =>
         /\ call'.on = "TIMER"
         /\ \A t \in Timers \ {"TIMER"} : timer'[t] = timer[t]
         /\ IF Running("TIMER")
            THEN /\ call'.exc = None
                 /\ call'.stdout \o call'.stderr =
                      <<ReportOf(timer["TIMER"], clock')>>
                 /\ timer'["TIMER"] =
                      [timer["TIMER"] EXCEPT !.tstart = Some(clock')]
                 /\ call'.tocs = 1 /\ call'.tics = 1
            ELSE /\ call'.exc = Some(NotRunning(timer["TIMER"].name))
                 /\ call'.stdout \o call'.stderr = <<>>
                 /\ timer' = timer
      ]_vars

\* toctic() has ended an interval that was not empty and started the next.
C9_Witness ==
    /\ call.op = "module.toctic" /\ call.exc = None
    /\ timer["TIMER"].tstart = Some(clock)
    /\ clock > 0
    /\ Len(Printed) = 1

\* The effect of a module-level call equals that of outcome r of the method
\* called on TIMER.
SameAsMethod(r) ==
    /\ timer' = [timer EXCEPT !["TIMER"] = r.self]
    /\ call'.exc = r.exc
    /\ call'.stdout = r.stdout /\ call'.stderr = r.stderr
    /\ call'.tics = r.tics /\ call'.tocs = r.tocs /\ call'.bodies = r.bodies
    /\ clock' = clock + r.took

Minute == SecondsPerMinute * Scale
Hour == MinutesPerHour * Minute

\* The seconds toc formats for timer object self after interval e.
Rounded(self, e) ==
    IF self.precision = None THEN e ELSE round(e, Val(self.precision))

\* The text for value v in the format of interval x: seconds only below a
\* minute, minutes and seconds below an hour, hours, minutes and seconds
\* from an hour on.
Rendering(v, x) ==
    IF x < Minute THEN << <<v, "s">> >>
    ELSE IF x < Hour THEN << <<v \div Minute, "m">>, <<v % Minute, "s">> >>
    ELSE << <<v \div Hour, "h">>, <<(v % Hour) \div Minute, "m">>,
            <<v % Minute, "s">> >>

VerboseToc(t) ==
    call'.op = "toc" /\ call'.on = t /\ call'.exc = None /\ timer[t].verbose

\* C11 as stated: the format of the report is chosen by the elapsed time
\* itself (below 60 s, below 3600 s, from 3600 s on), and the seconds shown
\* are the elapsed time rounded to precision.
C11_FormatByElapsed ==
    [][\A t \in Timers :
         VerboseToc(t) =>
            LET e == clock' - Val(timer[t].tstart) IN
            call'.stdout \o call'.stderr =
                <<Line(Val(timer[t].name), Rendering(Rounded(timer[t], e), e))>>
      ]_vars

\* C11 as amended: the format of the report is chosen by the elapsed time
\* after rounding to precision: seconds only when the rounded value is below
\* 60 s, minutes and seconds when it is below 3600 s, hours, minutes and
\* seconds from 3600 s on, each a whole part and the remainder of the
\* rounded value.
C11_FormatByRounded ==
    [][\A t \in Timers :
         VerboseToc(t) =>
            LET e == clock' - Val(timer[t].tstart)
                v == Rounded(timer[t], e)
            IN  call'.stdout \o call'.stderr =
                    <<Line(Val(timer[t].name), Rendering(v, v))>>
      ]_vars

\* A report of an interval just below an hour that rounds to the full hour.
C11_Witness ==
    /\ call.op = "toc" /\ call.exc = None /\ timer[call.on].verbose
    /\ clock < Hour
    /\ Len(Printed) = 1
    /\ Printed[1][4] = << <<1, "h">>, <<0, "m">>, <<0, "s">> >>

\* C12: with a clock that never goes back, every successful toc on a timer
\* that is not verbose returns the clock reading at this toc minus the
\* reading at the latest successful tic on the timer, never a negative
\* number, whatever calls succeeded or failed before.
C12_Elapsed ==
    (call.op = "toc" /\ call.exc = None /\ ~timer[call.on].verbose) =>
        /\ pc.started # None
        /\ call.ret = Some(clock - Val(pc.started))
        /\ Val(call.ret) >= 0

\* A timer without a name, started after a while, has measured an interval
\* that is not zero.
C12_Witness ==
    /\ call.op = "toc" /\ call.exc = None /\ ~timer[call.on].verbose
    /\ Val(pc.started) > 0
    /\ Val(call.ret) > 0

\* C13: the configuration of a timer is fixed when it is made: verbose is
\* (name is not None), and no call, whether it succeeds or fails, changes
\* verbose, name or precision.
C13_ConfigFixed ==
    [][\A t \in Timers :
         /\ timer[t].verbose <=> (timer[t].name # None)
         /\ timer'[t].verbose <=> (timer'[t].name # None)
         /\ timer'[t].name = timer[t].name
         /\ timer'[t].precision = timer[t].precision
         /\ timer'[t].verbose = timer[t].verbose
      ]_vars

\* A call has failed on a running timer after time has passed, with both
\* kinds of timer running.
C13_Witness ==
    /\ call.exc # None /\ Running(call.on)
    /\ clock > 0
    /\ Running("timer1") /\ Running("timer2")
    /\ timer["timer1"].verbose /\ ~timer["timer2"].verbose

\* C14: successful tic and toc alternate on every timer, verbose or not: a
\* second toc with no successful tic in between raises, so a successful toc
\* always follows a successful tic, and a successful tic follows nothing or
\* a successful toc.
C14_Alternate ==
    /\ pc.events[2] = "toc" => pc.events[1] = "tic"
    /\ pc.events[2] = "tic" => pc.events[1] \in {"none", "toc"}

\* C15: timers are independent: a call on one timer, failing or not, leaves
\* tstart, name, precision and verbose of every other timer, TIMER included,
\* as they were, and a toc reports or returns the interval since the start
\* of its own timer, however the calls on the timers interleave.
C15_Independent ==
    [][/\ \A t \in Timers : call'.on # t => timer'[t] = timer[t]
       /\ call'.op = "sleep" => timer' = timer
       /\ \A t \in Timers :
            (call'.op = "toc" /\ call'.on = t /\ call'.exc = None) =>
                IF timer[t].verbose
                THEN call'.stdout \o call'.stderr = <<ReportOf(timer[t], clock')>>
                ELSE call'.ret = Some(clock' - Val(timer[t].tstart))
      ]_vars

\* timer1 has reported its own interval while TIMER and timer2, started at
\* another time, are still running.
C15_Witness ==
    /\ call.op = "toc" /\ call.on = "timer1" /\ call.exc = None
    /\ Running("TIMER") /\ Running("timer2")
    /\ Val(timer["TIMER"].tstart) > 0
    /\ Val(timer["timer2"].tstart) # Val(timer["TIMER"].tstart)
    /\ Len(Printed) = 1
    /\ Printed[1][4] #
         diff_time(Rounded(timer["timer1"], clock - Val(timer["TIMER"].tstart)))
    /\ Printed[1][4] #
         diff_time(Rounded(timer["timer1"], clock - Val(timer["timer2"].tstart)))

WrapperOps == {"inner", "module.inner"}

\* C16: when the callable wrapped by tictoc raises, the exception reaches the
\* caller, toc is not called and the timer stays running; the next call of a
\* callable wrapped by the same timer raises the still-in-tic error and does
\* not call the wrapped callable.
C16_WrappedRaises ==
    [][\A t \in Timers :
         /\ (call'.op \in WrapperOps /\ call'.on = t /\ Idle(t) /\ call'.raises) =>
               /\ call'.exc = Some(SomethingWrong)
               /\ call'.tics = 1 /\ call'.tocs = 0
               /\ call'.stdout \o call'.stderr = <<>>
               /\ timer'[t] = [timer[t] EXCEPT !.tstart = Some(clock)]
         /\ (/\ call.op \in WrapperOps /\ call.on = t
             /\ call.raises /\ call.tics = 1
             /\ call'.op \in WrapperOps /\ call'.on = t) =>
               /\ call'.exc = Some(AlreadyRunning(timer[t].name))
               /\ call'.tics = 0 /\ call'.tocs = 0 /\ call'.bodies = 0
               /\ clock' = clock
               /\ timer' = timer
      ]_vars

\* A wrapped callable has raised after a while and its timer is running
\* since the call began.
C16_Witness ==
    /\ call.op \in WrapperOps
    /\ call.raises /\ call.tics = 1
    /\ call.exc = Some(SomethingWrong)
    /\ Running(call.on)
    /\ Val(timer[call.on].tstart) < clock

\* C17: a with statement on a running timer raises the still-in-tic error on
\* entry: the body does not run, toc is not called on exit, and the timer
\* stays running from its original start.
C17_EnterWhileRunning ==
    [][\A t \in Timers :
         (call'.op = "with" /\ call'.on = t /\ Running(t)) =>
            /\ call'.exc = Some(AlreadyRunning(timer[t].name))
            /\ call'.tics = 0 /\ call'.tocs = 0 /\ call'.bodies = 0
            /\ call'.stdout \o call'.stderr = <<>>
            /\ clock' = clock
            /\ timer' = timer
      ]_vars

\* A with statement whose body would have ended normally has failed on
\* entry, on a timer started a while ago.
C17_Witness ==
    /\ call.op = "with" /\ ~call.raises
    /\ call.exc = Some(AlreadyRunning(timer[call.on].name))
    /\ call.bodies = 0
    /\ Running(call.on)
    /\ Val(timer[call.on].tstart) < clock

\* The value a report's components add up to, in clock units.
Total(comps) ==
    IF Len(comps) = 1 THEN comps[1][1]
    ELSE IF Len(comps) = 2 THEN comps[1][1] * Minute + comps[2][1]
    ELSE comps[1][1] * Hour + comps[2][1] * Minute + comps[3][1]

Units(comps) == [i \in 1..Len(comps) |-> comps[i][2]]

\* v is e rounded to ndigits digits (to e itself when ndigits is None).
IsRounded(v, e, ndigits) ==
    IF ndigits = None THEN v = e
    ELSE LET q == Scale \div Pow10(Val(ndigits)) IN
         /\ v % q = 0
         /\ 2 * (v - e) <= q /\ 2 * (e - v) <= q

\* C18: in every verbose report the components add up to the elapsed time
\* rounded to precision and stay in range: the format is chosen by the
\* rounded value against 60 s and 3600 s, the seconds are in [0, 60) when
\* minutes are shown, and the minutes are in [0, 60) when hours are shown.
C18_Decomposition ==
    [][\A t \in Timers :
         VerboseToc(t) =>
            LET e     == clock' - Val(timer[t].tstart)
                comps == (call'.stdout \o call'.stderr)[1][4]
                n     == Len(comps)
                v     == Total(comps)
            IN  /\ IsRounded(v, e, timer[t].precision)
                /\ n = 1 <=> v < Minute
                /\ n = 2 <=> (v >= Minute /\ v < Hour)
                /\ n = 3 <=> v >= Hour
                /\ Units(comps) \in {<<"s">>, <<"m", "s">>, <<"h", "m", "s">>}
                /\ \A i \in 1..n : comps[i][1] >= 0
                /\ n >= 2 => comps[n][1] < Minute
                /\ n = 3 => comps[2][1] < MinutesPerHour
      ]_vars

\* A report with hours, minutes and seconds, all above zero, of an interval
\* that rounding has changed.
C18_Witness ==
    /\ call.op = "toc" /\ call.exc = None /\ timer[call.on].verbose
    /\ Len(Printed) = 1
    /\ Len(Printed[1][4]) = 3
    /\ \A i \in 1..3 : Printed[1][4][i][1] > 0
    /\ Total(Printed[1][4]) # clock

====
